---- MODULE Spec2Model ----
\* Model of the style-prompt enrichment pipeline
\* (scripts/generate-style-prompts-kimi-cli.ts, kept as src/unnamed/part_000):
\* preflight, dataset load, job selection, batched execution of the jobs
\* (Bird CLI lookup, then Kimi CLI analysis), persistence and summary.
EXTENDS Integers, Sequences, FiniteSets, TLC

\* ---------------------------------------------------------------- bounds
\* Entries over the two style categories of a small dataset.
MaxEntries == 2
\* Tokens of one Kimi CLI output.
MaxOutputLen == 3
\* --limit values range over -MaxNegLimit .. MaxLimit, Infinity and NaN.
MaxNegLimit == 1
MaxLimit == 1
\* Job lists and concurrency values of direct processInParallel calls.
MaxJobs == 4
MaxConcurrency == 2
\* Longest media list of a tweet in a call of fetchTweetMedia taken alone.
MaxMedia == 2

\* ------------------------------------------------------ program constants
CONCURRENCY == 5

STYLE_ENABLED_CATEGORIES == <<"Art & Inspiration", "Design & UI">>

\* A category of data.json that is not style-enabled.
OtherCategory == "AI Tools"

\* ------------------------------------------------------------ JS values
\* !x for the string-valued fields of a bookmark: null, undefined, a missing
\* property and the empty string are falsy.
Truthy(v) == v \notin {"null", "undefined", "absent", ""}

\* A JS number that may be Infinity or NaN (parseInt yields NaN).
Num(n) == [k |-> "int", n |-> n]
Infinity == [k |-> "inf", n |-> 0]
NaN == [k |-> "nan", n |-> 0]

Min(a, b) == IF a < b THEN a ELSE b
Max(a, b) == IF a > b THEN a ELSE b

\* Math.min(len, LIMIT): NaN if an argument is NaN.
MathMin(len, lim) ==
  IF lim.k = "nan" THEN NaN
  ELSE IF lim.k = "inf" THEN Num(len)
  ELSE Num(Min(len, lim.n))

\* ToIntegerOrInfinity of a slice bound, made relative to the length:
\* NaN is 0, a negative bound counts from the end.
RelIndex(len, x) ==
  IF x.k = "nan" THEN 0
  ELSE IF x.k = "inf" THEN len
  ELSE IF x.n < 0 THEN Max(len + x.n, 0)
  ELSE Min(x.n, len)

\* Array.prototype.slice(start, end) on a sequence, 0-based bounds.
Slice(s, start, end) ==
  LET from == RelIndex(Len(s), start)
      to == RelIndex(Len(s), end)
  IN  IF from >= to THEN <<>> ELSE SubSeq(s, from + 1, to)

\* ------------------------------------------------------------- bookmarks
Fresh ==
  [mediaType |-> "photo", mediaUrl |-> "pbs/img",
   styleAnalysis |-> "absent", stylePrompt |-> "absent"]

FreshVideo ==
  [mediaType |-> "video", mediaUrl |-> "pbs/img",
   styleAnalysis |-> "absent", stylePrompt |-> "absent"]

Analysed ==
  [mediaType |-> "photo", mediaUrl |-> "pbs/img",
   styleAnalysis |-> "upstream", stylePrompt |-> "upstream prompt"]

NoMedia ==
  [mediaType |-> "null", mediaUrl |-> "null",
   styleAnalysis |-> "absent", stylePrompt |-> "absent"]

EmptyMedia ==
  [mediaType |-> "photo", mediaUrl |-> "",
   styleAnalysis |-> "absent", stylePrompt |-> "absent"]

EntryKinds == {Fresh, Analysed, NoMedia, EmptyMedia}

\* analysis.prompt of a StyleAnalysis value. "kimi_full" is a parsed object
\* with every field of the schema, "kimi_style" a parsed object with a style
\* array and no prompt, "kimi_empty" the parsed object {}.
PromptOf(a) ==
  CASE a = "upstream" -> "upstream prompt"
    [] a = "kimi_full" -> "kimi prompt"
    [] OTHER -> "undefined"

\* Whether analysis.style is an array (analysis.style.slice is callable).
HasStyle(a) == a \in {"upstream", "kimi_full", "kimi_style"}

SeqsUpTo(S, n) == UNION {[1..k -> S] : k \in 0..n}

\* data.json with the two style categories holding a and b, and one entry
\* with media and no analysis in a category that is not style-enabled.
Dataset(a, b) ==
  (STYLE_ENABLED_CATEGORIES[1] :> a) @@ (STYLE_ENABLED_CATEGORIES[2] :> b)
    @@ (OtherCategory :> <<Fresh>>)

\* data.json without the second style category.
DatasetMissing(a) ==
  (STYLE_ENABLED_CATEGORIES[1] :> a) @@ (OtherCategory :> <<Fresh>>)

SmallDatasets ==
  {Dataset(a, b) : a \in SeqsUpTo(EntryKinds, MaxEntries),
                   b \in SeqsUpTo(EntryKinds, MaxEntries)}
  \cup {DatasetMissing(a) : a \in SeqsUpTo(EntryKinds, MaxEntries)}

\* A dataset with more eligible entries than CONCURRENCY.
LargeDataset ==
  Dataset(<<Fresh, Analysed, FreshVideo, Fresh>>,
          <<NoMedia, Fresh, FreshVideo, Fresh>>)

Datasets ==
  {d \in SmallDatasets :
     Len(d[STYLE_ENABLED_CATEGORIES[1]])
       + (IF STYLE_ENABLED_CATEGORIES[2] \in DOMAIN d
          THEN Len(d[STYLE_ENABLED_CATEGORIES[2]]) ELSE 0) <= MaxEntries}
  \cup {LargeDataset}

LimitValues ==
  {Infinity, NaN} \cup {Num(n) : n \in (0 - MaxNegLimit)..MaxLimit}

\* JSON.stringify drops a property whose value is undefined.
StringifyEntry(b) ==
  [b EXCEPT !.stylePrompt = IF @ = "undefined" THEN "absent" ELSE @,
            !.styleAnalysis = IF @ = "undefined" THEN "absent" ELSE @]

\* Mutant of Stringify: only the style-enabled categories are written.
StringifyStyleEnabled(d) ==
  [c \in DOMAIN d \cap {STYLE_ENABLED_CATEGORIES[n] : n \in 1..Len(STYLE_ENABLED_CATEGORIES)} |->
     [k \in 1..Len(d[c]) |-> StringifyEntry(d[c][k])]]

\* JSON.stringify(data, null, 2): key set and array order are kept.
Stringify(d) ==
  [c \in DOMAIN d |-> [k \in 1..Len(d[c]) |-> StringifyEntry(d[c][k])]]

\* The in-memory dataset before data.json is read.
EmptyData == <<>>

\* ------------------------------------------------------------- Bird CLI
BirdMedia ==
  [type : {"photo", "video", "animated_gif"}, url : {"bird/url"},
   videoUrl : {"undefined", "bird/videoUrl"}]

\* What `bird read --json` gives execSync: "error" is a non-zero exit or the
\* 30 s timeout, "nojson" an output with no {...} span, "badjson" a span that
\* JSON.parse rejects, "tweet" a parsed tweet with its media list.
BirdResponses ==
  {[status |-> st, media |-> <<>>] : st \in {"error", "nojson", "badjson", "tweet"}}
  \cup {[status |-> "tweet", media |-> <<m>>] : m \in BirdMedia}

\* Media items of a tweet for a call of fetchTweetMedia taken alone: the url
\* may be missing, the videoUrl missing or an empty string.
BirdMediaItems ==
  [type : {"photo", "video", "animated_gif"}, url : {"undefined", "bird/url"},
   videoUrl : {"undefined", "", "bird/videoUrl"}]

\* Responses of the Bird CLI with up to MaxMedia media items.
BirdCallResponses ==
  {[status |-> st, media |-> <<>>] : st \in {"error", "nojson", "badjson"}}
  \cup {[status |-> "tweet", media |-> m] : m \in SeqsUpTo(BirdMediaItems, MaxMedia)}

NoResult == [found |-> FALSE, mediaUrl |-> "null", isVideo |-> FALSE]

\* Mutant of fetchTweetMedia: an animated_gif is not taken as a video.
fetchTweetMediaVideoOnly(resp) ==
  IF resp.status # "tweet" THEN NoResult
  ELSE IF Len(resp.media) = 0 THEN NoResult
  ELSE LET media == resp.media[1]
           isVideo == media.type = "video"
       IN  [found |-> TRUE,
            mediaUrl |-> IF isVideo /\ Truthy(media.videoUrl)
                         THEN media.videoUrl ELSE media.url,
            isVideo |-> isVideo]

\* fetchTweetMedia: null on every failure and for a tweet without media.
fetchTweetMedia(resp) ==
  IF resp.status # "tweet" THEN NoResult
  ELSE IF Len(resp.media) = 0 THEN NoResult
  ELSE LET media == resp.media[1]
           isVideo == media.type = "video" \/ media.type = "animated_gif"
       IN  [found |-> TRUE,
            mediaUrl |-> IF isVideo /\ Truthy(media.videoUrl)
                         THEN media.videoUrl ELSE media.url,
            isVideo |-> isVideo]

\* ------------------------------------------------------------- Kimi CLI
\* The output text as tokens: the two braces, "w" for text that is not JSON
\* (a warning line, a markdown fence), "f" for the member list of the
\* requested schema and "s" for a member list with "style" but no "prompt".
KimiTokens == {"{", "}", "w", "f", "s"}

KimiOutputs == SeqsUpTo(KimiTokens, MaxOutputLen)

\* What `kimi --quiet -p` gives execSync: a process error or timeout, or text.
KimiResponses ==
  {[status |-> "error", out |-> <<>>]}
  \cup {[status |-> "ok", out |-> o] : o \in KimiOutputs}

Positions(out, tok) == {k \in 1..Len(out) : out[k] = tok}

SetMin(S) == CHOOSE x \in S : \A y \in S : x <= y
SetMax(S) == CHOOSE x \in S : \A y \in S : x >= y

\* Mutant of JsonMatch: the quantifier is lazy, the span ends at the first
\* "}" after the first "{".
JsonMatchLazy(out) ==
  LET opens == Positions(out, "{")
      closes == Positions(out, "}")
  IN  IF opens = {} THEN <<>>
      ELSE IF {k \in closes : k > SetMin(opens)} = {} THEN <<>>
      ELSE SubSeq(out, SetMin(opens), SetMin({k \in closes : k > SetMin(opens)}))

\* result.match(/\{[\s\S]*\}/): the greedy span from the first "{" to the
\* last "}" after it, or no match (the empty sequence).
JsonMatch(out) ==
  LET opens == Positions(out, "{")
      closes == Positions(out, "}")
  IN  IF opens = {} THEN <<>>
      ELSE IF {k \in closes : k > SetMin(opens)} = {} THEN <<>>
      ELSE SubSeq(out, SetMin(opens), SetMax(closes))

\* JSON.parse of a matched span: {} and {members} are objects, every other
\* span is a SyntaxError.
JsonParse(span) ==
  IF span = <<"{", "}">> THEN "kimi_empty"
  ELSE IF span = <<"{", "f", "}">> THEN "kimi_full"
  ELSE IF span = <<"{", "s", "}">> THEN "kimi_style"
  ELSE "SyntaxError"

\* Lines 274-332: the text analyzeWithKimiCLIDirect passes to JSON.parse,
\* the empty sequence when it returns before line 332.
ParsedText(mediaUrl, fallbackUrl, resp) ==
  LET urlToUse == IF Truthy(mediaUrl) THEN mediaUrl ELSE fallbackUrl
  IN  IF ~Truthy(urlToUse) THEN <<>>
      ELSE IF resp.status = "error" THEN <<>>
      ELSE JsonMatch(resp.out)

\* Mutant of analyzeWithKimiCLIDirect: JSON.parse is called outside the try
\* block, its SyntaxError reaches the caller.
analyzeUncaught(mediaUrl, fallbackUrl, resp) ==
  LET urlToUse == IF Truthy(mediaUrl) THEN mediaUrl ELSE fallbackUrl
  IN  IF ~Truthy(urlToUse) THEN "null"
      ELSE IF resp.status = "error" THEN "null"
      ELSE IF JsonMatch(resp.out) = <<>> THEN "null"
      ELSE JsonParse(JsonMatch(resp.out))

\* Lines 311-324: the prompt file when analyzeWithKimiCLIDirect returns. The
\* function returns at line 276 before writing it; rm runs only after the
\* execSync of kimi has returned, not when it throws into the catch block.
PromptFile(mediaUrl, fallbackUrl, resp) ==
  LET urlToUse == IF Truthy(mediaUrl) THEN mediaUrl ELSE fallbackUrl
  IN  IF ~Truthy(urlToUse) THEN "none"
      ELSE IF resp.status = "error" THEN "written"
      ELSE "removed"

\* analyzeWithKimiCLIDirect: null ("null") for no URL, a process error, no
\* match or a parse error; the parsed object otherwise.
analyzeWithKimiCLIDirect(mediaUrl, fallbackUrl, resp) ==
  LET urlToUse == IF Truthy(mediaUrl) THEN mediaUrl ELSE fallbackUrl
  IN  IF ~Truthy(urlToUse) THEN "null"
      ELSE IF resp.status = "error" THEN "null"
      ELSE IF JsonMatch(resp.out) = <<>> THEN "null"
      ELSE IF JsonParse(JsonMatch(resp.out)) = "SyntaxError" THEN "null"
      ELSE JsonParse(JsonMatch(resp.out))

\* The media URLs of the entries and of the Bird CLI.
MediaUrls == {"null", "", "pbs/img", "bird/url", "bird/videoUrl"}

\* The return value of analyzeWithKimiCLIDirect for every mediaUrl, every
\* fallbackUrl and every response of the Kimi CLI.
AnalysisTable ==
  {[mediaUrl |-> m, fallbackUrl |-> f,
    analysis |-> analyzeWithKimiCLIDirect(m, f, resp)] :
     m \in MediaUrls, f \in MediaUrls, resp \in KimiResponses}

\* The values analyzeWithKimiCLIDirect can return for a mediaUrl and a
\* fallbackUrl.
AnalysesOf(mediaUrl, fallbackUrl) ==
  {t.analysis :
     t \in {r \in AnalysisTable :
              r.mediaUrl = mediaUrl /\ r.fallbackUrl = fallbackUrl}}

\* -------------------------------------------------------------- selection
\* Mutant of IsCandidate: the styleAnalysis test is left out.
IsCandidateIgnoringAnalysis(bookmark) == Truthy(bookmark.mediaUrl)

\* Mutant of IsCandidate: the mediaUrl test is left out.
IsCandidateIgnoringMedia(bookmark) == ~Truthy(bookmark.styleAnalysis)

\* The test of line 464: bookmark.mediaUrl && !bookmark.styleAnalysis.
IsCandidate(bookmark) ==
  Truthy(bookmark.mediaUrl) /\ ~Truthy(bookmark.styleAnalysis)

RECURSIVE CollectCategory(_, _, _)
\* The inner loop of lines 462-467 from index i (0-based) on.
CollectCategory(d, category, i) ==
  IF i >= Len(d[category]) THEN <<>>
  ELSE (IF IsCandidate(d[category][i + 1])
        THEN <<[category |-> category, index |-> i]>> ELSE <<>>)
       \o CollectCategory(d, category, i + 1)

RECURSIVE Collect(_, _)
\* The loop of lines 458-468 over STYLE_ENABLED_CATEGORIES from position n.
Collect(d, n) ==
  IF n > Len(STYLE_ENABLED_CATEGORIES) THEN <<>>
  ELSE (IF STYLE_ENABLED_CATEGORIES[n] \in DOMAIN d
        THEN CollectCategory(d, STYLE_ENABLED_CATEGORIES[n], 0) ELSE <<>>)
       \o Collect(d, n + 1)

\* Mutant of ItemsToProcess: the limit keeps the end of the list.
ItemsFromEnd(toProc, lim) ==
  Slice(toProc, Num(Len(toProc) - RelIndex(Len(toProc), MathMin(Len(toProc), lim))),
        Num(Len(toProc)))

\* Lines 477-478: toProcess.slice(0, Math.min(toProcess.length, LIMIT)).
ItemsToProcess(toProc, lim) == Slice(toProc, Num(0), MathMin(Len(toProc), lim))

\* The entry a job refers to.
EntryOf(d, item) == d[item.category][item.index + 1]

\* Mutant of BatchAt: the end of the slice is taken as inclusive.
BatchAtInclusive(bookmarks, i, c) == Slice(bookmarks, Num(i), Num(i + c + 1))

\* Line 395: bookmarks.slice(i, i + concurrency).
BatchAt(bookmarks, i, c) == Slice(bookmarks, Num(i), Num(i + c))

\* Line 413: i + concurrency < bookmarks.length.
MoreBatches(i, c, len) == i + c < len

\* Mutant of UsesPool: the pool is run in a dry run too.
UsesPoolAlways(dry) == TRUE

\* Lines 485 and 490: the else branch of `if (DRY_RUN)` runs the pool.
UsesPool(dry) == ~dry

\* Line 497: !DRY_RUN && processed > 0.
ShouldSave(dry, proc) == ~dry /\ proc > 0

\* ------------------------------------------------------------------ state
VARIABLES
  disk,           \* public/data.json
  dryRun,         \* DRY_RUN
  limit,          \* LIMIT
  pc,             \* position of the control flow of main / processInParallel
  exitCode,       \* exit status of the process, -1 while it runs
  summary,        \* whether the summary block was printed
  data,           \* the parsed dataset in memory
  loaded,         \* the dataset as it was when the run read it
  toProcess,      \* main: the collected jobs
  items,          \* itemsToProcess / the bookmarks of processInParallel
  processed,      \* main: processed
  errors,         \* main: errors
  concurrency,    \* processInParallel: concurrency
  i,              \* processInParallel: loop index
  batch,          \* processInParallel: batch
  bi,             \* number of promises of the batch already created
  results,        \* outcome of each promise of the batch
  poolProcessed,  \* processInParallel: processed
  poolErrors,     \* processInParallel: errors
  jobState,       \* state of each job of items
  cur,            \* processBookmark: mediaUrl and mediaIsVideo
  reads,          \* readFileSync calls on data.json in this run
  writes,         \* writeFileSync calls on data.json in this run
  resolverCalls,  \* fetchTweetMedia calls per job
  analyzerCalls,  \* analyzeWithKimiCLIDirect calls per job
  batchLog,       \* sizes of the batches started, in order
  pauseLog,       \* for each delay(2000), the number of batches started before it
  tools,          \* outcome of the two version checks of the preflight
  kimiResp,       \* a call of analyzeWithKimiCLIDirect taken alone: its
                  \* arguments and what the Kimi CLI gives it
  handed,         \* the text that call handed to JSON.parse, if any
  returned,       \* what that call returned, "pending" before it returns
  tempFile,       \* the prompt file of that call: "none", "written", "removed"
  birdResp,       \* a call of fetchTweetMedia taken alone: what the Bird CLI
                  \* gives it
  birdReturned,   \* what that call returned, "pending" before it returns
  categoryIdx,    \* API-key variant: position of the for-of loop in the
                  \* allow-list, 0 before the loop
  totalProcessed, \* API-key variant: the three counters of main
  totalSkipped,
  totalErrors,
  lastEvent,      \* API-key variant: "request" after an analysis request,
                  \* "delay" after a delay(1000), "none" before both
  apiKey          \* API-key variant: process.env.KIMI_API_KEY

vars ==
  <<disk, dryRun, limit, pc, exitCode, summary, data, loaded, toProcess, items,
    processed, errors, concurrency, i, batch, bi, results, poolProcessed,
    poolErrors, jobState, cur, reads, writes, resolverCalls, analyzerCalls,
    batchLog, pauseLog, tools, kimiResp, handed, returned, tempFile, birdResp,
    birdReturned, categoryIdx, totalProcessed, totalSkipped, totalErrors,
    lastEvent, apiKey>>

kimiVars == <<kimiResp, handed, returned, tempFile>>
birdVars == <<birdResp, birdReturned>>
callVars == <<kimiVars, birdVars>>
apiVars ==
  <<categoryIdx, totalProcessed, totalSkipped, totalErrors, lastEvent, apiKey>>
mainVars ==
  <<dryRun, limit, tools, callVars, apiVars, exitCode, summary, toProcess, processed,
    errors>>
poolVars == <<concurrency, i, batch, bi, results, poolProcessed, poolErrors>>
jobVars == <<jobState, cur, resolverCalls, analyzerCalls>>
fileVars == <<disk, reads, writes>>
logVars == <<batchLog, pauseLog>>

NoCur ==
  [resp |-> [status |-> "none", media |-> <<>>], mediaUrl |-> "null",
   isVideo |-> FALSE]

\* The preflight before its version checks, and after both succeeded.
Unchecked == [bird |-> "unchecked", kimi |-> "unchecked"]
BothFound == [bird |-> "found", kimi |-> "found"]

\* A stand-alone call of fetchTweetMedia has not returned.
NoReturn == [found |-> FALSE, mediaUrl |-> "pending", isVideo |-> FALSE]

\* No stand-alone call of fetchTweetMedia is under study.
NoBirdCall == [status |-> "none", media |-> <<>>]

\* No stand-alone call of analyzeWithKimiCLIDirect is under study.
NoCall ==
  [mediaUrl |-> "null", fallbackUrl |-> "null",
   resp |-> [status |-> "none", out |-> <<>>]]

\* Mutant of ExitOnMissing: the catch block only reports the missing tool.
ContinueOnMissing(found) == FALSE

\* Lines 435-437 and 444-447: the catch of a version check calls
\* process.exit(1).
ExitOnMissing(found) == ~found

\* Mutant of ExitStatus: a rejection of main ends the process with status 1.
ExitStatusUncaught(outcome) == IF outcome = "returned" THEN 0 ELSE 1

\* Exit status of the process: 1 from process.exit(1) for a missing tool, 0
\* when main returns and when its rejection is caught at line 513.
ExitStatus(outcome) == IF outcome = "missing" THEN 1 ELSE 0

\* The state of a process that has just started with the given arguments.
ProcessStart(dry, lim) ==
  /\ dryRun = dry
  /\ limit = lim
  /\ pc = "checkBird"
  /\ exitCode = -1
  /\ summary = FALSE
  /\ data = EmptyData
  /\ loaded = EmptyData
  /\ toProcess = <<>>
  /\ items = <<>>
  /\ processed = 0
  /\ errors = 0
  /\ concurrency = CONCURRENCY
  /\ i = 0
  /\ batch = <<>>
  /\ bi = 0
  /\ results = <<>>
  /\ poolProcessed = 0
  /\ poolErrors = 0
  /\ jobState = <<>>
  /\ cur = NoCur
  /\ reads = 0
  /\ writes = 0
  /\ resolverCalls = <<>>
  /\ analyzerCalls = <<>>
  /\ batchLog = <<>>
  /\ pauseLog = <<>>
  /\ tools = Unchecked
  /\ kimiResp = NoCall
  /\ handed = <<>>
  /\ returned = "pending"
  /\ tempFile = "none"
  /\ birdResp = NoBirdCall
  /\ birdReturned = NoReturn
  /\ categoryIdx = 0
  /\ totalProcessed = 0
  /\ totalSkipped = 0
  /\ totalErrors = 0
  /\ lastEvent = "none"
  /\ apiKey = "undefined"

Init ==
  /\ disk \in Datasets
  /\ \E dry \in BOOLEAN, lim \in LimitValues : ProcessStart(dry, lim)

\* ------------------------------------------------------------------- main
\* Lines 431-438: `bird --version`; a missing Bird CLI exits with status 1.
CheckBird ==
  /\ pc = "checkBird"
  /\ \E found \in BOOLEAN :
       /\ tools' = [tools EXCEPT !.bird = IF found THEN "found" ELSE "missing"]
       /\ IF ExitOnMissing(found)
          THEN pc' = "exited" /\ exitCode' = ExitStatus("missing")
          ELSE pc' = "checkKimi" /\ exitCode' = exitCode
  /\ UNCHANGED <<disk, dryRun, limit, callVars, apiVars, summary, data, loaded, toProcess,
                 items,
                 processed, errors, poolVars, jobVars, reads, writes, logVars>>

\* Lines 440-448: `kimi --version`; a missing Kimi CLI exits with status 1.
CheckKimi ==
  /\ pc = "checkKimi"
  /\ \E found \in BOOLEAN :
       /\ tools' = [tools EXCEPT !.kimi = IF found THEN "found" ELSE "missing"]
       /\ IF ExitOnMissing(found)
          THEN pc' = "exited" /\ exitCode' = ExitStatus("missing")
          ELSE pc' = "load" /\ exitCode' = exitCode
  /\ UNCHANGED <<disk, dryRun, limit, callVars, apiVars, summary, data, loaded, toProcess,
                 items,
                 processed, errors, poolVars, jobVars, reads, writes, logVars>>

\* Lines 450-453: read and parse data.json.
LoadData ==
  /\ pc = "load"
  /\ data' = disk
  /\ loaded' = disk
  /\ reads' = reads + 1
  /\ pc' = "collect"
  /\ UNCHANGED <<disk, writes, mainVars, items, poolVars, jobVars, logVars>>

\* Lines 455-475: collect the jobs; with none to process main returns.
CollectJobs ==
  /\ pc = "collect"
  /\ toProcess' = Collect(data, 1)
  /\ IF Len(toProcess') = 0
     THEN pc' = "exited" /\ exitCode' = ExitStatus("returned")
     ELSE pc' = "limit" /\ exitCode' = exitCode
  /\ UNCHANGED <<fileVars, dryRun, limit, tools, callVars, apiVars,
                 summary, data, loaded, items,
                 processed, errors, poolVars, jobVars, logVars>>

\* Lines 477-483: apply the limit.
ApplyLimit ==
  /\ pc = "limit"
  /\ items' = ItemsToProcess(toProcess, limit)
  /\ jobState' = [j \in 1..Len(items') |-> "PENDING"]
  /\ resolverCalls' = [j \in 1..Len(items') |-> 0]
  /\ analyzerCalls' = [j \in 1..Len(items') |-> 0]
  /\ processed' = 0
  /\ errors' = 0
  /\ pc' = "branch"
  /\ UNCHANGED <<fileVars, dryRun, limit, tools, callVars, apiVars,
                 exitCode, summary, data, loaded,
                 toProcess, poolVars, cur, logVars>>

\* Lines 485-489: the dry run only lists the jobs.
DryRunList ==
  /\ pc = "branch"
  /\ ~UsesPool(dryRun)
  /\ pc' = "save"
  /\ UNCHANGED <<fileVars, mainVars, data, loaded, items, poolVars, jobVars,
                 logVars>>

\* Line 491: call processInParallel(itemsToProcess, CONCURRENCY).
CallPool ==
  /\ pc = "branch"
  /\ UsesPool(dryRun)
  /\ concurrency' = CONCURRENCY
  /\ i' = 0
  /\ poolProcessed' = 0
  /\ poolErrors' = 0
  /\ pc' = "loop"
  /\ UNCHANGED <<fileVars, mainVars, data, loaded, items, batch, bi, results,
                 jobVars, logVars>>

\* Lines 491-493: the awaited result is copied into processed and errors.
AwaitPool ==
  /\ pc = "returned"
  /\ processed' = poolProcessed
  /\ errors' = poolErrors
  /\ pc' = "save"
  /\ UNCHANGED <<fileVars, dryRun, limit, tools, callVars, apiVars,
                 exitCode, summary, toProcess, data,
                 loaded, items, poolVars, jobVars, logVars>>

\* Line 513: a rejection of main is printed by console.error; the process
\* ends with status 0, past the save and the summary.
MainRejected ==
  /\ pc = "rejected"
  /\ pc' = "exited"
  /\ exitCode' = ExitStatus("rejected")
  /\ UNCHANGED <<fileVars, dryRun, limit, tools, callVars, apiVars,
                 summary, toProcess, processed, errors,
                 data, loaded, items, poolVars, jobVars, logVars>>

\* Lines 496-500: write data.json.
Save ==
  /\ pc = "save"
  /\ ShouldSave(dryRun, processed)
  /\ disk' = Stringify(data)
  /\ writes' = writes + 1
  /\ pc' = "summary"
  /\ UNCHANGED <<reads, mainVars, data, loaded, items, poolVars, jobVars,
                 logVars>>

\* Line 497 when the condition is false.
SkipSave ==
  /\ pc = "save"
  /\ ~ShouldSave(dryRun, processed)
  /\ pc' = "summary"
  /\ UNCHANGED <<fileVars, mainVars, data, loaded, items, poolVars, jobVars,
                 logVars>>

\* Lines 502-511: print the summary; main returns and the process ends.
Summary ==
  /\ pc = "summary"
  /\ summary' = TRUE
  /\ exitCode' = ExitStatus("returned")
  /\ pc' = "exited"
  /\ UNCHANGED <<fileVars, dryRun, limit, tools, callVars, apiVars,
                 toProcess, processed, errors, data,
                 loaded, items, poolVars, jobVars, logVars>>

\* The script is started again on the data.json the last run left.
StartRun ==
  /\ pc = "exited"
  /\ dryRun' \in BOOLEAN
  /\ limit' \in LimitValues
  /\ pc' = "checkBird"
  /\ exitCode' = -1
  /\ summary' = FALSE
  /\ data' = EmptyData
  /\ loaded' = EmptyData
  /\ toProcess' = <<>>
  /\ items' = <<>>
  /\ processed' = 0
  /\ errors' = 0
  /\ concurrency' = CONCURRENCY
  /\ i' = 0
  /\ batch' = <<>>
  /\ bi' = 0
  /\ results' = <<>>
  /\ poolProcessed' = 0
  /\ poolErrors' = 0
  /\ jobState' = <<>>
  /\ cur' = NoCur
  /\ reads' = 0
  /\ writes' = 0
  /\ resolverCalls' = <<>>
  /\ analyzerCalls' = <<>>
  /\ batchLog' = <<>>
  /\ pauseLog' = <<>>
  /\ tools' = Unchecked
  /\ UNCHANGED <<disk, callVars, apiVars>>

\* ------------------------------------------------------- processInParallel
\* Lines 394-396: the loop test holds; cut the next batch.
BatchStart ==
  /\ pc = "loop"
  /\ i < Len(items)
  /\ batch' = BatchAt(items, i, concurrency)
  /\ bi' = 0
  /\ results' = <<>>
  /\ batchLog' = Append(batchLog, Len(batch'))
  /\ pc' = "map"
  /\ UNCHANGED <<fileVars, mainVars, data, loaded, items, concurrency, i,
                 poolProcessed, poolErrors, jobVars, pauseLog>>

\* Position in items (1-based) of the job whose promise batch.map creates next.
CurJob == i + bi + 1

\* The bookmark of that job.
CurBookmark == EntryOf(data, items[CurJob])

\* Lines 354-360: processBookmark starts and calls fetchTweetMedia, which
\* blocks in execSync.
ResolveMedia ==
  /\ pc = "map"
  /\ bi < Len(batch)
  /\ jobState[CurJob] = "PENDING"
  /\ jobState' = [jobState EXCEPT ![CurJob] = "RESOLVING_MEDIA"]
  /\ resolverCalls' = [resolverCalls EXCEPT ![CurJob] = @ + 1]
  /\ UNCHANGED <<fileVars, mainVars, data, loaded, items, poolVars, pc, cur,
                 analyzerCalls, logVars>>

\* Mutant of MediaFor: the video flag of the stored media kind is kept when
\* Bird gave a result.
MediaForStoredKind(bookmark, birdResult) ==
  LET isVideo == bookmark.mediaType = "video" \/ bookmark.mediaType = "animated_gif"
  IN  IF birdResult.found
      THEN [mediaUrl |-> birdResult.mediaUrl, isVideo |-> isVideo]
      ELSE [mediaUrl |-> bookmark.mediaUrl, isVideo |-> isVideo]

\* Lines 355 and 362-368: mediaUrl and mediaIsVideo are the bookmark's own
\* media URL and kind unless birdResult is not null.
MediaFor(bookmark, birdResult) ==
  LET isVideo == bookmark.mediaType = "video" \/ bookmark.mediaType = "animated_gif"
  IN  IF birdResult.found
      THEN [mediaUrl |-> birdResult.mediaUrl, isVideo |-> birdResult.isVideo]
      ELSE [mediaUrl |-> bookmark.mediaUrl, isVideo |-> isVideo]

\* Lines 360-371: fetchTweetMedia returns; the bookmark's own media URL and
\* kind are used unless Bird gave a result; analyzeWithKimiCLIDirect is called
\* with mediaUrl and mediaIsVideo.
AnalyzeMedia ==
  /\ pc = "map"
  /\ bi < Len(batch)
  /\ jobState[CurJob] = "RESOLVING_MEDIA"
  /\ \E resp \in BirdResponses :
       LET args == MediaFor(CurBookmark, fetchTweetMedia(resp))
       IN  cur' = [resp |-> resp, mediaUrl |-> args.mediaUrl,
                   isVideo |-> args.isVideo]
  /\ jobState' = [jobState EXCEPT ![CurJob] = "ANALYZING"]
  /\ analyzerCalls' = [analyzerCalls EXCEPT ![CurJob] = @ + 1]
  /\ UNCHANGED <<fileVars, mainVars, data, loaded, items, poolVars, pc,
                 resolverCalls, logVars>>

\* Mutant of Attach: the jobs of a category share one entry object, the
\* analysis is written to every entry of the category.
AttachToCategory(d, item, analysis) ==
  [d EXCEPT ![item.category] =
     [k \in 1..Len(@) |->
        [@[k] EXCEPT !.styleAnalysis = analysis,
                     !.stylePrompt = PromptOf(analysis)]]]

\* Lines 374-375: bookmark.styleAnalysis = analysis and bookmark.stylePrompt =
\* analysis.prompt, on the entry object of the job, which is the one in data.
Attach(d, item, analysis) ==
  [d EXCEPT ![item.category][item.index + 1] =
     [@ EXCEPT !.styleAnalysis = analysis, !.stylePrompt = PromptOf(analysis)]]

\* Lines 371-381: analyzeWithKimiCLIDirect returns. A non-null analysis is
\* attached; line 376 then reads analysis.style.slice, which throws for an
\* object without a style array and rejects the promise of the job.
SettleJob ==
  /\ pc = "map"
  /\ bi < Len(batch)
  /\ jobState[CurJob] = "ANALYZING"
  /\ \E analysis \in AnalysesOf(cur.mediaUrl, CurBookmark.mediaUrl) :
       LET item == items[CurJob]
       IN  IF analysis # "null"
           THEN /\ data' = Attach(data, item, analysis)
                /\ IF HasStyle(analysis)
                   THEN /\ jobState' = [jobState EXCEPT ![CurJob] = "ATTACHED"]
                        /\ results' = Append(results, "success")
                   ELSE /\ jobState' = [jobState EXCEPT ![CurJob] = "THROWN"]
                        /\ results' = Append(results, "rejected")
           ELSE /\ data' = data
                /\ jobState' = [jobState EXCEPT ![CurJob] = "FAILED"]
                /\ results' = Append(results, "failure")
  /\ bi' = bi + 1
  /\ cur' = NoCur
  /\ UNCHANGED <<fileVars, mainVars, loaded, items, concurrency, i, batch,
                 poolProcessed, poolErrors, pc, resolverCalls, analyzerCalls,
                 logVars>>

\* Mutant of Count: a batch adds one to a counter whatever the number of
\* its results of that kind.
CountBatch(seq, v) == IF \E k \in 1..Len(seq) : seq[k] = v THEN 1 ELSE 0

Count(seq, v) == Cardinality({k \in 1..Len(seq) : seq[k] = v})

\* Lines 402-413: every promise of the batch is fulfilled; count the results
\* and test whether a batch follows.
BatchSettled ==
  /\ pc = "map"
  /\ bi = Len(batch)
  /\ Count(results, "rejected") = 0
  /\ poolProcessed' = poolProcessed + Count(results, "success")
  /\ poolErrors' = poolErrors + Count(results, "failure")
  /\ IF MoreBatches(i, concurrency, Len(items))
     THEN pc' = "delay" /\ i' = i
     ELSE pc' = "loop" /\ i' = i + concurrency
  /\ UNCHANGED <<fileVars, mainVars, data, loaded, items, concurrency, batch,
                 bi, results, jobVars, logVars>>

\* Line 402: Promise.all rejects when a promise of the batch is rejected;
\* processInParallel rejects, and main with it.
BatchRejected ==
  /\ pc = "map"
  /\ bi = Len(batch)
  /\ Count(results, "rejected") > 0
  /\ pc' = "rejected"
  /\ UNCHANGED <<fileVars, mainVars, data, loaded, items, poolVars, jobVars,
                 logVars>>

\* Lines 413-416 and the loop step: delay(2000), then i += concurrency.
Cooldown ==
  /\ pc = "delay"
  /\ pauseLog' = Append(pauseLog, Len(batchLog))
  /\ i' = i + concurrency
  /\ pc' = "loop"
  /\ UNCHANGED <<fileVars, mainVars, data, loaded, items, concurrency, batch,
                 bi, results, poolProcessed, poolErrors, jobVars, batchLog>>

\* Line 419: the loop test fails; return the counts.
PoolReturn ==
  /\ pc = "loop"
  /\ i >= Len(items)
  /\ pc' = "returned"
  /\ UNCHANGED <<fileVars, mainVars, data, loaded, items, poolVars, jobVars,
                 logVars>>

\* ---------------------------------------------------------- specifications
Next ==
  \/ CheckBird
  \/ CheckKimi
  \/ LoadData
  \/ CollectJobs
  \/ ApplyLimit
  \/ DryRunList
  \/ CallPool
  \/ BatchStart
  \/ ResolveMedia
  \/ AnalyzeMedia
  \/ SettleJob
  \/ BatchSettled
  \/ BatchRejected
  \/ Cooldown
  \/ PoolReturn
  \/ AwaitPool
  \/ MainRejected
  \/ Save
  \/ SkipSave
  \/ Summary
  \/ StartRun

Spec == Init /\ [][Next]_vars

\* processInParallel called with n bookmarks and a concurrency of c.
RECURSIVE Repeat(_, _)
Repeat(x, n) == IF n = 0 THEN <<>> ELSE <<x>> \o Repeat(x, n - 1)

InitPool ==
  \E n \in 1..MaxJobs, c \in 1..MaxConcurrency :
    /\ disk = Dataset(Repeat(Fresh, n), <<>>)
    /\ dryRun = FALSE
    /\ limit = Infinity
    /\ pc = "loop"
    /\ exitCode = -1
    /\ summary = FALSE
    /\ data = disk
    /\ loaded = disk
    /\ toProcess = Collect(disk, 1)
    /\ items = toProcess
    /\ processed = 0
    /\ errors = 0
    /\ concurrency = c
    /\ i = 0
    /\ batch = <<>>
    /\ bi = 0
    /\ results = <<>>
    /\ poolProcessed = 0
    /\ poolErrors = 0
    /\ jobState = [j \in 1..n |-> "PENDING"]
    /\ cur = NoCur
    /\ reads = 1
    /\ writes = 0
    /\ resolverCalls = [j \in 1..n |-> 0]
    /\ analyzerCalls = [j \in 1..n |-> 0]
    /\ batchLog = <<>>
    /\ pauseLog = <<>>
    /\ tools = BothFound
    /\ kimiResp = NoCall
    /\ handed = <<>>
    /\ returned = "pending"
    /\ tempFile = "none"
    /\ birdResp = NoBirdCall
    /\ birdReturned = NoReturn
    /\ categoryIdx = 0
    /\ totalProcessed = 0
    /\ totalSkipped = 0
    /\ totalErrors = 0
    /\ lastEvent = "none"
    /\ apiKey = "undefined"

NextPool ==
  \/ BatchStart
  \/ ResolveMedia
  \/ AnalyzeMedia
  \/ SettleJob
  \/ BatchSettled
  \/ BatchRejected
  \/ Cooldown
  \/ PoolReturn

SpecPool == InitPool /\ [][NextPool]_vars

\* One call of analyzeWithKimiCLIDirect with any media URL, any fallback URL
\* and any response of the Kimi CLI.
InitAnalyze ==
  /\ kimiResp \in [mediaUrl : MediaUrls, fallbackUrl : MediaUrls, resp : KimiResponses]
  /\ handed = <<>>
  /\ returned = "pending"
  /\ tempFile = "none"
  /\ birdResp = NoBirdCall
  /\ birdReturned = NoReturn
  /\ categoryIdx = 0
  /\ totalProcessed = 0
  /\ totalSkipped = 0
  /\ totalErrors = 0
  /\ lastEvent = "none"
  /\ apiKey = "undefined"
  /\ pc = "analyze"
  /\ disk = Dataset(<<>>, <<>>)
  /\ dryRun = FALSE
  /\ limit = Infinity
  /\ exitCode = -1
  /\ summary = FALSE
  /\ data = EmptyData
  /\ loaded = EmptyData
  /\ toProcess = <<>>
  /\ items = <<>>
  /\ processed = 0
  /\ errors = 0
  /\ concurrency = CONCURRENCY
  /\ i = 0
  /\ batch = <<>>
  /\ bi = 0
  /\ results = <<>>
  /\ poolProcessed = 0
  /\ poolErrors = 0
  /\ jobState = <<>>
  /\ cur = NoCur
  /\ reads = 0
  /\ writes = 0
  /\ resolverCalls = <<>>
  /\ analyzerCalls = <<>>
  /\ batchLog = <<>>
  /\ pauseLog = <<>>
  /\ tools = BothFound

\* Lines 272-339: the call runs to its return.
AnalyzeCall ==
  /\ pc = "analyze"
  /\ handed' = ParsedText(kimiResp.mediaUrl, kimiResp.fallbackUrl, kimiResp.resp)
  /\ returned' =
       analyzeWithKimiCLIDirect(kimiResp.mediaUrl, kimiResp.fallbackUrl, kimiResp.resp)
  /\ tempFile' = PromptFile(kimiResp.mediaUrl, kimiResp.fallbackUrl, kimiResp.resp)
  /\ pc' = "analyzed"
  /\ UNCHANGED <<fileVars, dryRun, limit, tools, kimiResp, birdVars, apiVars,
                 exitCode, summary, data, loaded, toProcess, items, processed,
                 errors, poolVars, jobVars, logVars>>

NextAnalyze == AnalyzeCall

\* One call of fetchTweetMedia with any response of the Bird CLI.
InitResolve ==
  /\ birdResp \in BirdCallResponses
  /\ birdReturned = NoReturn
  /\ categoryIdx = 0
  /\ totalProcessed = 0
  /\ totalSkipped = 0
  /\ totalErrors = 0
  /\ lastEvent = "none"
  /\ apiKey = "undefined"
  /\ kimiResp = NoCall
  /\ handed = <<>>
  /\ returned = "pending"
  /\ tempFile = "none"
  /\ pc = "resolve"
  /\ disk = Dataset(<<>>, <<>>)
  /\ dryRun = FALSE
  /\ limit = Infinity
  /\ exitCode = -1
  /\ summary = FALSE
  /\ data = EmptyData
  /\ loaded = EmptyData
  /\ toProcess = <<>>
  /\ items = <<>>
  /\ processed = 0
  /\ errors = 0
  /\ concurrency = CONCURRENCY
  /\ i = 0
  /\ batch = <<>>
  /\ bi = 0
  /\ results = <<>>
  /\ poolProcessed = 0
  /\ poolErrors = 0
  /\ jobState = <<>>
  /\ cur = NoCur
  /\ reads = 0
  /\ writes = 0
  /\ resolverCalls = <<>>
  /\ analyzerCalls = <<>>
  /\ batchLog = <<>>
  /\ pauseLog = <<>>
  /\ tools = BothFound

\* Lines 143-171: the call runs to its return.
ResolveCall ==
  /\ pc = "resolve"
  /\ birdReturned' = fetchTweetMedia(birdResp)
  /\ pc' = "resolved"
  /\ UNCHANGED <<fileVars, dryRun, limit, tools, kimiVars, birdResp, apiVars, exitCode,
                 summary, data, loaded, toProcess, items, processed, errors,
                 poolVars, jobVars, logVars>>

NextResolve == ResolveCall

SpecResolve == InitResolve /\ [][NextResolve]_vars

SpecAnalyze == InitAnalyze /\ [][NextAnalyze]_vars

\* ------------------------------------------------------ API-key variant
\* generate-style-prompts.ts: the same enrichment, one request at a time over
\* HTTP. What analyzeImageWithKimi does for one request: it throws (HTTP
\* error, no content, JSON.parse failure), or returns the parsed value, which
\* is null or an object with or without prompt and style.
ApiOutcomes == {"throw", "null", "kimi_full", "kimi_style", "kimi_empty"}

\* Lines 182-183 read analysis.prompt.slice and analysis.style.join inside
\* the try block: both need the field to exist.
ApiLogsSucceed(analysis) ==
  PromptOf(analysis) # "undefined" /\ HasStyle(analysis)

\* Lines 179-180 on entry k (1-based) of category c. For a parsed null,
\* line 180 throws on analysis.prompt after styleAnalysis was assigned.
ApiAttach(d, c, k, analysis) ==
  IF analysis = "null"
  THEN [d EXCEPT ![c][k] = [@ EXCEPT !.styleAnalysis = "null"]]
  ELSE [d EXCEPT ![c][k] =
          [@ EXCEPT !.styleAnalysis = analysis,
                    !.stylePrompt = PromptOf(analysis)]]

\* The bookmarks of the category the for-of loop is at.
ApiBookmarks == data[STYLE_ENABLED_CATEGORIES[categoryIdx]]

\* What the API-key variant never touches.
apiFrame ==
  <<dryRun, limit, tools, callVars, toProcess, items, processed, errors,
    concurrency, batch, bi, results, poolProcessed, poolErrors, jobVars,
    logVars>>

\* The process of the API-key variant has just started, with or without
\* KIMI_API_KEY in its environment.
InitApiKey ==
  /\ disk \in Datasets
  /\ apiKey \in {"undefined", "sk-key"}
  /\ categoryIdx = 0
  /\ totalProcessed = 0
  /\ totalSkipped = 0
  /\ totalErrors = 0
  /\ lastEvent = "none"
  /\ pc = "apiCheckKey"
  /\ birdResp = NoBirdCall
  /\ birdReturned = NoReturn
  /\ kimiResp = NoCall
  /\ handed = <<>>
  /\ returned = "pending"
  /\ tempFile = "none"
  /\ dryRun = FALSE
  /\ limit = Infinity
  /\ exitCode = -1
  /\ summary = FALSE
  /\ data = EmptyData
  /\ loaded = EmptyData
  /\ toProcess = <<>>
  /\ items = <<>>
  /\ processed = 0
  /\ errors = 0
  /\ concurrency = CONCURRENCY
  /\ i = 0
  /\ batch = <<>>
  /\ bi = 0
  /\ results = <<>>
  /\ poolProcessed = 0
  /\ poolErrors = 0
  /\ jobState = <<>>
  /\ cur = NoCur
  /\ reads = 0
  /\ writes = 0
  /\ resolverCalls = <<>>
  /\ analyzerCalls = <<>>
  /\ batchLog = <<>>
  /\ pauseLog = <<>>
  /\ tools = Unchecked

\* Lines 132-137: without KIMI_API_KEY the process exits with status 1.
ApiCheckKey ==
  /\ pc = "apiCheckKey"
  /\ IF Truthy(apiKey)
     THEN pc' = "apiLoad" /\ UNCHANGED exitCode
     ELSE pc' = "exited" /\ exitCode' = 1
  /\ UNCHANGED <<fileVars, apiVars, apiFrame, summary, data, loaded, i>>

\* Lines 141-146: data.json is read and parsed, the counters start at 0.
ApiLoad ==
  /\ pc = "apiLoad"
  /\ data' = disk
  /\ loaded' = disk
  /\ reads' = reads + 1
  /\ totalProcessed' = 0
  /\ totalSkipped' = 0
  /\ totalErrors' = 0
  /\ pc' = "apiCategory"
  /\ UNCHANGED <<disk, writes, categoryIdx, lastEvent, apiKey, apiFrame,
                 exitCode, summary, i>>

\* Lines 148-156: the for-of loop takes the next category of the allow-list;
\* a missing or empty category is skipped, after the last one the loop ends.
ApiNextCategory ==
  /\ pc = "apiCategory"
  /\ IF categoryIdx = Len(STYLE_ENABLED_CATEGORIES)
     THEN pc' = "apiSave" /\ UNCHANGED <<categoryIdx, i>>
     ELSE /\ categoryIdx' = categoryIdx + 1
          /\ LET c == STYLE_ENABLED_CATEGORIES[categoryIdx + 1]
             IN  IF c \notin DOMAIN data \/ Len(data[c]) = 0
                 THEN pc' = "apiCategory" /\ UNCHANGED i
                 ELSE pc' = "apiBookmark" /\ i' = 0
  /\ UNCHANGED <<fileVars, totalProcessed, totalSkipped, totalErrors,
                 lastEvent, apiKey, apiFrame, exitCode, summary, data,
                 loaded>>

\* Lines 158-175: the loop test and the two skips of an iteration. A skipped
\* entry is counted and the loop continues, without a delay; an entry with
\* media and no analysis goes on to its request.
ApiNextBookmark ==
  /\ pc = "apiBookmark"
  /\ IF i >= Len(ApiBookmarks)
     THEN pc' = "apiCategory" /\ UNCHANGED <<i, totalSkipped>>
     ELSE LET bookmark == ApiBookmarks[i + 1]
          IN  IF ~Truthy(bookmark.mediaUrl) \/ Truthy(bookmark.styleAnalysis)
              THEN /\ totalSkipped' = totalSkipped + 1
                   /\ i' = i + 1
                   /\ pc' = "apiBookmark"
              ELSE pc' = "apiRequest" /\ UNCHANGED <<i, totalSkipped>>
  /\ UNCHANGED <<fileVars, categoryIdx, totalProcessed, totalErrors,
                 lastEvent, apiKey, apiFrame, exitCode, summary, data,
                 loaded>>

\* Lines 177-188: one analysis request and what the try/catch does with it.
\* A returned analysis is attached and counted before the log lines read
\* its fields, so an analysis that makes them throw is counted twice.
ApiRequest ==
  /\ pc = "apiRequest"
  /\ \E outcome \in ApiOutcomes :
       IF outcome = "throw"
       THEN /\ totalErrors' = totalErrors + 1
            /\ UNCHANGED <<data, totalProcessed>>
       ELSE /\ data' = ApiAttach(data, STYLE_ENABLED_CATEGORIES[categoryIdx],
                                 i + 1, outcome)
            /\ totalProcessed' =
                 IF outcome = "null" THEN totalProcessed
                 ELSE totalProcessed + 1
            /\ totalErrors' =
                 IF ApiLogsSucceed(outcome) THEN totalErrors
                 ELSE totalErrors + 1
  /\ lastEvent' = "request"
  /\ pc' = "apiRateLimit"
  /\ UNCHANGED <<fileVars, categoryIdx, totalSkipped, apiKey, apiFrame,
                 exitCode, summary, loaded, i>>

\* Lines 190-193 and the i++ of line 158: the delay runs unless the entry is
\* the last of its category.
ApiRateLimit ==
  /\ pc = "apiRateLimit"
  /\ lastEvent' = IF i < Len(ApiBookmarks) - 1 THEN "delay" ELSE lastEvent
  /\ i' = i + 1
  /\ pc' = "apiBookmark"
  /\ UNCHANGED <<fileVars, categoryIdx, totalProcessed, totalSkipped,
                 totalErrors, apiKey, apiFrame, exitCode, summary, data,
                 loaded>>

\* Line 199: data.json is rewritten, whatever the counters say.
ApiSave ==
  /\ pc = "apiSave"
  /\ disk' = Stringify(data)
  /\ writes' = writes + 1
  /\ pc' = "apiSummary"
  /\ UNCHANGED <<reads, apiVars, apiFrame, exitCode, summary, data, loaded,
                 i>>

\* Lines 201-208: the summary is printed and main returns.
ApiSummary ==
  /\ pc = "apiSummary"
  /\ summary' = TRUE
  /\ exitCode' = 0
  /\ pc' = "exited"
  /\ UNCHANGED <<fileVars, apiVars, apiFrame, data, loaded, i>>

NextApiKey ==
  \/ ApiCheckKey
  \/ ApiLoad
  \/ ApiNextCategory
  \/ ApiNextBookmark
  \/ ApiRequest
  \/ ApiRateLimit
  \/ ApiSave
  \/ ApiSummary

SpecApiKey == InitApiKey /\ [][NextApiKey]_vars

\* ------------------------------------------------------------- properties
StyleCategories == {STYLE_ENABLED_CATEGORIES[n] : n \in 1..Len(STYLE_ENABLED_CATEGORIES)}

\* Position of a category in the iteration order of the allow-list.
CategoryRank(category) ==
  CHOOSE n \in 1..Len(STYLE_ENABLED_CATEGORIES) : STYLE_ENABLED_CATEGORIES[n] = category

\* The (category, index) references of a dataset, index 0-based as in the code.
Refs(d) ==
  UNION {{[category |-> c, index |-> k - 1] : k \in 1..Len(d[c])} : c \in DOMAIN d}

Range(seq) == {seq[k] : k \in 1..Len(seq)}

Jobs == 1..Len(items)

JobsIn(state) == {j \in Jobs : jobState[j] = state}

\* The jobs for which an external tool was invoked in this run.
Invoked == {j \in Jobs : resolverCalls[j] > 0 \/ analyzerCalls[j] > 0}

RunEnded == pc = "exited"

\* Batch number (0-based) of the job at position j (1-based) of the job list.
BatchOf(j) == (j - 1) \div concurrency

\* C1: an entry that holds a styleAnalysis when the run loads data.json is
\* never in the job list of that run, and neither fetchTweetMedia nor
\* analyzeWithKimiCLIDirect is invoked for it.
C1_AnalysedNeverSelected ==
  \A r \in Refs(loaded) :
    EntryOf(loaded, r).styleAnalysis # "absent" =>
      /\ r \notin Range(toProcess)
      /\ r \notin Range(items)
      /\ \A j \in Invoked : items[j] # r

\* C1 witness: a later run loaded an entry analysed by an earlier run and an
\* entry analysed upstream, and has invoked the analyzer for another entry.
C1_Witness ==
  /\ \E r \in Refs(loaded) :
       r.category \in StyleCategories /\ EntryOf(loaded, r).styleAnalysis = "kimi_full"
  /\ \E r \in Refs(loaded) :
       r.category \in StyleCategories /\ EntryOf(loaded, r).styleAnalysis = "upstream"
  /\ \E j \in Jobs : analyzerCalls[j] > 0

\* C2: a styleAnalysis that an entry holds, in memory or in data.json, is
\* never changed and never removed by a step of the pipeline; styleAnalysis
\* is written only where there was none. (The start of a new process, which
\* drops the memory of the last one, is not a write.)
C2_NeverOverwritten ==
  [][/\ disk' # disk =>
          \A r \in Refs(disk) :
            EntryOf(disk, r).styleAnalysis # "absent" =>
              /\ r \in Refs(disk')
              /\ EntryOf(disk', r).styleAnalysis = EntryOf(disk, r).styleAnalysis
     /\ (data' # data /\ data' # EmptyData) =>
          \A r \in Refs(data) :
            EntryOf(data, r).styleAnalysis # "absent" =>
              /\ r \in Refs(data')
              /\ EntryOf(data', r).styleAnalysis = EntryOf(data, r).styleAnalysis]_vars

\* C2 witness: the run has attached an analysis and saved, with an entry
\* analysed upstream and an entry analysed by an earlier run in the dataset.
C2_Witness ==
  /\ writes = 1
  /\ JobsIn("ATTACHED") # {}
  /\ \E r \in Refs(loaded) :
       r.category \in StyleCategories /\ EntryOf(loaded, r).styleAnalysis = "upstream"
  /\ \E r \in Refs(loaded) :
       r.category \in StyleCategories /\ EntryOf(loaded, r).styleAnalysis = "kimi_full"

\* C3: in a run that is not a dry run, whatever the outcome of a job, every
\* selected job is run to its end and the run reaches its summary.
C3_NoJobAbortsTheRun ==
  (RunEnded /\ ~dryRun /\ Len(items) > 0) =>
    /\ JobsIn("PENDING") = {}
    /\ summary

\* C4: in a run that is not a dry run, the analysis of every job that reached
\* ATTACHED is in data.json when the run has ended.
C4_SuccessIsPersisted ==
  (RunEnded /\ ~dryRun) =>
    \A j \in JobsIn("ATTACHED") :
      /\ writes = 1
      /\ EntryOf(disk, items[j]).styleAnalysis = EntryOf(data, items[j]).styleAnalysis

\* C5: data.json is read once, before any job starts, and written at most
\* once, after every batch has settled; when the run has ended it was written
\* if and only if the run is not a dry run and at least one job succeeded.
C5_ReadOnceWriteOnce ==
  /\ reads <= 1
  /\ writes <= 1
  /\ Invoked # {} => reads = 1
  /\ writes = 1 => pc \in {"summary", "exited"}
  /\ (RunEnded /\ reads = 1) =>
       (writes = 1 <=> (~dryRun /\ JobsIn("ATTACHED") # {}))

\* C6: in a dry run no job invokes fetchTweetMedia or analyzeWithKimiCLIDirect,
\* no entry in memory is changed and data.json is not written: it stays as
\* it was loaded.
C6_DryRunChangesNothing ==
  dryRun =>
    /\ Invoked = {}
    /\ writes = 0
    /\ loaded # EmptyData => (data = loaded /\ disk = loaded)

\* C6 witness: a dry run with a limit that cuts the job list has ended with
\* its summary.
C6_Witness ==
  /\ dryRun
  /\ RunEnded
  /\ summary
  /\ Len(items) > 0
  /\ Len(items) < Len(toProcess)

\* C7: the batch in progress holds exactly the jobs at positions
\* k*concurrency .. (k+1)*concurrency - 1 of the job list, k counting the
\* batches from 0, and a job has started only if every job of every earlier
\* batch has settled and it belongs to a batch already cut.
C7_BatchBarrier ==
  /\ pc \in {"map", "delay"} =>
       LET k == Len(batchLog) - 1
       IN  /\ k >= 0
           /\ Len(batch) = Cardinality({j \in Jobs : BatchOf(j) = k})
           /\ \A m \in 1..Len(batch) : batch[m] = items[k * concurrency + m]
  /\ \A j \in Jobs :
       jobState[j] # "PENDING" =>
         /\ BatchOf(j) < Len(batchLog)
         /\ \A m \in Jobs :
              BatchOf(m) < BatchOf(j) => jobState[m] \in {"ATTACHED", "FAILED"}

\* C7 witness: a job of the second batch is being analysed after a first
\* batch of two jobs, one attached and one failed.
C7_Witness ==
  /\ concurrency = 2
  /\ Len(items) >= 3
  /\ jobState[1] = "ATTACHED"
  /\ jobState[2] = "FAILED"
  /\ jobState[3] = "ANALYZING"

\* Number of batches of n jobs under a concurrency of c.
NumBatches(n, c) == (n + c - 1) \div c

\* C8: when the pool has finished, it has run ceil(n/c) batches, each of
\* size c except the last, of n - c*(ceil(n/c) - 1) jobs, and has paused
\* after every batch except the last.
C8_BatchSizesAndPauses ==
  pc \in {"returned", "rejected"} =>
    LET n == Len(items)
        nb == NumBatches(n, concurrency)
    IN  /\ batchLog = [k \in 1..nb |-> IF k < nb THEN concurrency
                                       ELSE n - concurrency * (nb - 1)]
        /\ pauseLog = [k \in 1..(nb - 1) |-> k]

\* C9: when the run has ended, every job whose analyzer call returned null
\* has left its entry without styleAnalysis and stylePrompt, the error
\* counter is the number of those jobs, and the success counter counts none
\* of them.
C9_NullAnalysisCountsOneError ==
  (RunEnded /\ ~dryRun) =>
    /\ \A j \in JobsIn("FAILED") :
         /\ EntryOf(data, items[j]).styleAnalysis = "absent"
         /\ EntryOf(data, items[j]).stylePrompt = "absent"
    /\ errors = Cardinality(JobsIn("FAILED"))
    /\ processed <= Cardinality(Jobs \ JobsIn("FAILED"))

\* C10: once the jobs are collected, an entry is in the job list if and only
\* if its category is style-enabled, its mediaUrl is a non-empty string and
\* it has no styleAnalysis, and the list is ordered by the position of the
\* category in the allow-list, then by the index in the category.
C10_SelectionAndOrder ==
  pc \notin {"checkBird", "checkKimi", "load", "collect"} =>
    /\ \A r \in Refs(loaded) :
         r \in Range(toProcess) <=>
           /\ r.category \in {"Art & Inspiration", "Design & UI"}
           /\ EntryOf(loaded, r).mediaUrl \notin {"null", ""}
           /\ EntryOf(loaded, r).styleAnalysis = "absent"
    /\ Range(toProcess) \subseteq Refs(loaded)
    /\ \A a, b \in 1..Len(toProcess) :
         a < b =>
           \/ CategoryRank(toProcess[a].category) < CategoryRank(toProcess[b].category)
           \/ /\ toProcess[a].category = toProcess[b].category
              /\ toProcess[a].index < toProcess[b].index

\* C10 witness: jobs were collected from both style categories of a dataset
\* that also holds an analysed entry and an entry without media.
C10_Witness ==
  /\ pc = "limit"
  /\ \E a, b \in Range(toProcess) : a.category # b.category
  /\ \E a, b \in Range(toProcess) : a.category = b.category /\ a.index # b.index
  /\ \E r \in Refs(loaded) :
       r.category \in StyleCategories /\ EntryOf(loaded, r).styleAnalysis # "absent"
  /\ \E r \in Refs(loaded) :
       r.category \in StyleCategories /\ EntryOf(loaded, r).mediaUrl = "null"

\* The first n elements of a sequence.
Prefix(seq, n) == [k \in 1..n |-> seq[k]]

C12_MissingToolStopsBeforeDataset ==
  (tools.bird = "missing" \/ tools.kimi = "missing") =>
    /\ RunEnded
    /\ exitCode = 1
    /\ reads = 0 /\ writes = 0
    /\ data = EmptyData /\ loaded = EmptyData
    /\ items = <<>> /\ Invoked = {}
    /\ batchLog = <<>>

\* C12 witness: bird was found and kimi is missing.
C12_Witness ==
  /\ tools = [bird |-> "found", kimi |-> "missing"]
  /\ RunEnded
  /\ exitCode = 1

\* C13: a run that has ended has exit status 1 if a tool was missing at
\* the preflight and exit status 0 otherwise, whatever its jobs did.
C13_ExitStatus ==
  RunEnded =>
    /\ exitCode \in {0, 1}
    /\ exitCode = 1 <=> (tools.bird = "missing" \/ tools.kimi = "missing")
    /\ tools = BothFound => exitCode = 0

\* C13 witness: both tools were found, a job of the run failed and another
\* threw, and the run ended with exit status 0.
C13_Witness ==
  /\ RunEnded
  /\ tools = BothFound
  /\ exitCode = 0
  /\ JobsIn("FAILED") # {}
  /\ JobsIn("THROWN") # {}

\* C14: while a job is in analyzeWithKimiCLIDirect, the call was made with
\* the bookmark's own mediaUrl and the video flag of its mediaType if the
\* Bird CLI failed, printed no JSON, printed unparsable JSON or gave a tweet
\* without media, and with the URL and the video flag of the tweet's first
\* media otherwise.
C14_ResolverFallback ==
  \A j \in JobsIn("ANALYZING") :
    LET bookmark == EntryOf(data, items[j])
    IN  /\ j = CurJob
        /\ analyzerCalls[j] = 1
        /\ (cur.resp.status \in {"error", "nojson", "badjson"}
            \/ (cur.resp.status = "tweet" /\ cur.resp.media = <<>>)) =>
             /\ cur.mediaUrl = bookmark.mediaUrl
             /\ cur.isVideo = (bookmark.mediaType \in {"video", "animated_gif"})
        /\ (cur.resp.status = "tweet" /\ cur.resp.media # <<>>) =>
             /\ cur.isVideo = (cur.resp.media[1].type \in {"video", "animated_gif"})
             /\ cur.mediaUrl =
                  IF cur.isVideo /\ cur.resp.media[1].videoUrl # "undefined"
                  THEN cur.resp.media[1].videoUrl ELSE cur.resp.media[1].url

\* C14 witness: the Bird CLI failed for a bookmark stored as a video, and
\* the analyzer was called with the stored URL and the video flag set.
C14_Witness ==
  \E j \in JobsIn("ANALYZING") :
    /\ cur.resp.status = "error"
    /\ EntryOf(data, items[j]).mediaType = "video"
    /\ cur.isVideo
    /\ cur.mediaUrl = EntryOf(data, items[j]).mediaUrl

\* The Kimi CLI was run and printed the output out.
KimiPrinted(out) ==
  /\ pc = "analyzed"
  /\ kimiResp.resp = [status |-> "ok", out |-> out]
  /\ (kimiResp.mediaUrl \notin {"null", ""} \/ kimiResp.fallbackUrl \notin {"null", ""})

\* C15: when the output of the Kimi CLI holds a "{" and, after it, a "}",
\* the text passed to JSON.parse runs from the first "{" of the output to
\* its last "}", whatever precedes and follows them.
C15_ParsesFirstToLastBrace ==
  \A out \in KimiOutputs :
    (/\ KimiPrinted(out)
     /\ \E a, b \in 1..Len(out) : a < b /\ out[a] = "{" /\ out[b] = "}") =>
      \E a, b \in 1..Len(out) :
        /\ out[a] = "{" /\ \A k \in 1..(a - 1) : out[k] # "{"
        /\ out[b] = "}" /\ \A k \in (b + 1)..Len(out) : out[k] # "}"
        /\ handed = [k \in 1..(b - a + 1) |-> out[a + k - 1]]

\* C15 witness: text precedes the object in one output and a second "}"
\* follows the first in another.
C15_Witness ==
  \/ KimiPrinted(<<"w", "{", "}">>) /\ handed = <<"{", "}">>
  \/ KimiPrinted(<<"{", "}", "}">>) /\ handed = <<"{", "}", "}">>

\* C16: the call returns null when the Kimi CLI fails or times out, when
\* its output has no "{" or no "}" after the first "{", and when the span
\* is not a JSON text; in no case does it end by throwing.
C16_NullOnEveryFailure ==
  pc = "analyzed" =>
    /\ returned \in {"null", "kimi_empty", "kimi_full", "kimi_style"}
    /\ kimiResp.resp.status = "error" => returned = "null"
    /\ \A out \in KimiOutputs :
         KimiPrinted(out) =>
           /\ (\A k \in 1..Len(out) : out[k] # "{") => returned = "null"
           /\ (\A a, b \in 1..Len(out) : (out[a] = "{" /\ out[b] = "}") => b < a) =>
                returned = "null"
           /\ handed \notin {<<"{", "}">>, <<"{", "f", "}">>, <<"{", "s", "}">>} =>
                returned = "null"

\* C16 witness: the span of the output is not a JSON text and the call
\* returned null.
C16_Witness ==
  /\ KimiPrinted(<<"{", "w", "}">>)
  /\ handed = <<"{", "w", "}">>
  /\ returned = "null"

\* C17: a job changes state only along PENDING -> RESOLVING_MEDIA ->
\* ANALYZING -> ATTACHED or FAILED; fetchTweetMedia is called before
\* analyzeWithKimiCLIDirect, and each at most once for a job of a run.
C17_JobStateMachine ==
  [][items' = items =>
       \A j \in DOMAIN jobState \cap DOMAIN jobState' :
         /\ jobState'[j] # jobState[j] =>
              <<jobState[j], jobState'[j]>> \in
                {<<"PENDING", "RESOLVING_MEDIA">>, <<"RESOLVING_MEDIA", "ANALYZING">>,
                 <<"ANALYZING", "ATTACHED">>, <<"ANALYZING", "FAILED">>}
         /\ resolverCalls'[j] <= 1 /\ analyzerCalls'[j] <= 1
         /\ analyzerCalls'[j] <= resolverCalls'[j]]_vars

\* C18: an entry to which a job attached an analysis has a stylePrompt equal
\* to the prompt of that analysis, and the entry of a job counted as a
\* success has both a styleAnalysis and a stylePrompt.
C18_PromptCopiedWithAnalysis ==
  \A j \in Jobs :
    LET bookmark == EntryOf(data, items[j])
    IN  /\ bookmark.styleAnalysis # "absent" =>
             bookmark.stylePrompt = PromptOf(bookmark.styleAnalysis)
        /\ jobState[j] = "ATTACHED" =>
             /\ bookmark.styleAnalysis \notin {"absent", "undefined"}
             /\ bookmark.stylePrompt \notin {"absent", "undefined"}

\* C19 as stated: in a dry run no process of the Bird CLI or of the Kimi
\* CLI is spawned, neither by a version check nor for a job.
C19_DryRunSpawnsNothing ==
  dryRun =>
    /\ tools.bird # "found" /\ tools.kimi # "found"
    /\ \A j \in Jobs : resolverCalls[j] = 0 /\ analyzerCalls[j] = 0

\* C19 amended: in a dry run the two version checks of the preflight are
\* made as in a normal run, and they are the only processes of the Bird CLI
\* and the Kimi CLI: no job is started, fetchTweetMedia and
\* analyzeWithKimiCLIDirect are never called.
C19_DryRunSpawnsOnlyVersionChecks ==
  dryRun =>
    /\ pc # "checkBird" => tools.bird \in {"found", "missing"}
    /\ (pc \notin {"checkBird", "checkKimi"} /\ tools.bird = "found") =>
         tools.kimi \in {"found", "missing"}
    /\ \A j \in Jobs :
         resolverCalls[j] = 0 /\ analyzerCalls[j] = 0 /\ jobState[j] = "PENDING"
    /\ cur = NoCur
    /\ batchLog = <<>>

\* C19 witness: a dry run found both tools with its version checks, listed
\* two jobs or more and ended with its summary.
C19_Witness ==
  /\ dryRun
  /\ RunEnded
  /\ summary
  /\ tools = BothFound
  /\ Len(items) >= 2
  /\ \A j \in Jobs : resolverCalls[j] = 0 /\ analyzerCalls[j] = 0

\* C20: a run that passed the preflight and read data.json has printed the
\* summary with the processed and error counts when it ends.
C20_SummaryAtEnd ==
  (RunEnded /\ tools = BothFound /\ reads = 1) => summary

\* The promise of a job is settled: fulfilled or rejected.
Settled(j) == jobState[j] \in {"ATTACHED", "FAILED", "THROWN"}

\* C21: the jobs of a batch run concurrently: when a job that is not the
\* first of its batch starts fetchTweetMedia, an earlier job of the same
\* batch has not settled yet.
C21_BatchJobsOverlap ==
  [][\A j \in DOMAIN jobState \cap DOMAIN jobState' :
       (/\ items' = items
        /\ jobState[j] = "PENDING" /\ jobState'[j] = "RESOLVING_MEDIA"
        /\ \E m \in 1..(j - 1) : BatchOf(m) = BatchOf(j)) =>
         \E m \in 1..(j - 1) : BatchOf(m) = BatchOf(j) /\ ~Settled(m)]_vars

\* C21, what holds instead: a job that has left PENDING while an earlier job
\* of its batch is not settled does not exist in any reachable state.
C21_OneJobAtATime ==
  \A j \in Jobs :
    jobState[j] # "PENDING" =>
      \A m \in 1..(j - 1) : BatchOf(m) = BatchOf(j) => Settled(m)

\* Every batch of processInParallel has completed.
BatchesDone == pc \in {"returned", "save", "summary", "exited"}

\* C22 as stated: a styleAnalysis or stylePrompt is written into the
\* in-memory dataset only after every batch has completed.
C22_MutatedAfterBatches ==
  [][(data' # data /\ loaded' = loaded /\ loaded # EmptyData) => BatchesDone]_vars

\* C22 amended: the only writes into the in-memory dataset are made by the
\* job in progress, while its batch runs: processBookmark sets styleAnalysis
\* and stylePrompt of its own entry and of no other; data.json is written
\* only after every batch has completed.
C22_MutatedByRunningJob ==
  [][/\ (data' # data /\ loaded' = loaded /\ loaded # EmptyData) =>
          /\ pc = "map" /\ bi < Len(batch)
          /\ jobState[CurJob] = "ANALYZING"
          /\ jobState'[CurJob] \in {"ATTACHED", "THROWN"}
          /\ Refs(data') = Refs(data)
          /\ \A r \in Refs(data) \ {items[CurJob]} : EntryOf(data', r) = EntryOf(data, r)
          /\ EntryOf(data', items[CurJob]).mediaUrl = EntryOf(data, items[CurJob]).mediaUrl
          /\ EntryOf(data', items[CurJob]).mediaType = EntryOf(data, items[CurJob]).mediaType
     /\ disk' # disk => (BatchesDone /\ \A j \in Jobs : Settled(j))]_vars

\* C22 witness: the first job of a batch of two has written its entry in
\* memory and the second job of the batch has not started.
C22_Witness ==
  /\ pc = "map"
  /\ Len(batch) >= 2
  /\ bi = 1
  /\ jobState[CurJob - 1] = "ATTACHED"
  /\ jobState[CurJob] = "PENDING"
  /\ EntryOf(data, items[CurJob - 1]) # EntryOf(loaded, items[CurJob - 1])

\* C23: for a tweet with at least one media item, fetchTweetMedia reports
\* isVideo exactly when the type of the first item is "video" or
\* "animated_gif", and returns that item's videoUrl when isVideo holds and
\* the videoUrl is there (a non-empty string), its url in every other case.
C23_ResolverClassification ==
  (pc = "resolved" /\ birdResp.status = "tweet" /\ Len(birdResp.media) >= 1) =>
    LET first == birdResp.media[1]
    IN  /\ birdReturned.found
        /\ birdReturned.isVideo <=> first.type \in {"video", "animated_gif"}
        /\ (birdReturned.isVideo /\ first.videoUrl \notin {"undefined", ""}) =>
             birdReturned.mediaUrl = first.videoUrl
        /\ ~(birdReturned.isVideo /\ first.videoUrl \notin {"undefined", ""}) =>
             birdReturned.mediaUrl = first.url

\* C23 witness: the first item is an animated_gif with a videoUrl, the
\* second a photo, and the call returned the videoUrl of the first.
C23_Witness ==
  /\ pc = "resolved"
  /\ Len(birdResp.media) = 2
  /\ birdResp.media[1].type = "animated_gif"
  /\ birdResp.media[1].videoUrl = "bird/videoUrl"
  /\ birdResp.media[2].type = "photo"
  /\ birdReturned = [found |-> TRUE, mediaUrl |-> "bird/videoUrl", isVideo |-> TRUE]

\* C26: when analyzeWithKimiCLIDirect returns, on any path, the prompt file
\* it wrote has been removed.
C26_PromptFileRemoved ==
  pc = "analyzed" => tempFile \in {"none", "removed"}

\* C24: for an integer --limit N, negative values included, the job list
\* given to processInParallel, or listed by the dry run, has at most
\* max(N, 0) jobs.
C24_LimitCapsJobs ==
  (/\ pc \notin {"checkBird", "checkKimi", "load", "collect", "limit"}
   /\ limit.k = "int") =>
    Len(items) <= Max(limit.n, 0)

\* C25: from the load of data.json to the end of the run, the file has the
\* categories it had when loaded, each with as many entries, every entry
\* with the mediaType and mediaUrl it had at the same position, and every
\* entry that is not a job of the run is as it was loaded.
C25_FrameOfSave ==
  loaded # EmptyData =>
    /\ DOMAIN disk = DOMAIN loaded
    /\ \A c \in DOMAIN loaded : Len(disk[c]) = Len(loaded[c])
    /\ \A r \in Refs(loaded) :
         /\ EntryOf(disk, r).mediaType = EntryOf(loaded, r).mediaType
         /\ EntryOf(disk, r).mediaUrl = EntryOf(loaded, r).mediaUrl
         /\ r \notin Range(items) => EntryOf(disk, r) = EntryOf(loaded, r)

\* C25 witness: the run has saved a dataset that differs from the loaded
\* one, which holds an entry of a style category that was not selected and
\* a category that is not style-enabled.
C25_Witness ==
  /\ writes = 1
  /\ disk # loaded
  /\ \E r \in Refs(loaded) : r.category \in StyleCategories /\ r \notin Range(items)
  /\ \E r \in Refs(loaded) : r.category \notin StyleCategories

\* C28: when processInParallel returns, the two counts it returns add up to
\* the number of jobs it was given, processed is the number of jobs whose
\* entry holds a styleAnalysis, and errors the number of the other jobs.
C28_CountsOnReturn ==
  pc = "returned" =>
    LET analysed == {j \in Jobs : EntryOf(data, items[j]).styleAnalysis # "absent"}
    IN  /\ poolProcessed + poolErrors = Len(items)
        /\ poolProcessed = Cardinality(analysed)
        /\ poolErrors = Cardinality(Jobs \ analysed)
        /\ analysed = JobsIn("ATTACHED")
        /\ Jobs \ analysed = JobsIn("FAILED")

\* C28 witness: the pool has returned after two batches or more, with two
\* jobs attached in one batch and a failed job.
C28_Witness ==
  /\ pc = "returned"
  /\ Len(batchLog) >= 2
  /\ poolErrors >= 1
  /\ \E j \in Jobs :
       /\ j + 1 \in Jobs /\ BatchOf(j) = BatchOf(j + 1)
       /\ jobState[j] = "ATTACHED" /\ jobState[j + 1] = "ATTACHED"

\* Position of a reference in a job list, 0 if it is not in the list.
PositionIn(list, r) ==
  IF r \in Range(list) THEN CHOOSE k \in 1..Len(list) : list[k] = r ELSE 0

\* C29: when a run ends, the entry of each FAILED job is in data.json as it
\* was loaded, with its media URL and no styleAnalysis, and the collection
\* of the next run from that file has it again, after the same entries of
\* the job list that are still eligible; if every job of the run failed,
\* the file is as loaded and the next run collects the same list.
C29_FailedLeavesNoMarker ==
  (RunEnded /\ loaded # EmptyData) =>
    LET next == Collect(disk, 1)
    IN  /\ \A j \in JobsIn("FAILED") :
             /\ EntryOf(disk, items[j]) = EntryOf(loaded, items[j])
             /\ EntryOf(disk, items[j]).styleAnalysis = "absent"
             /\ EntryOf(disk, items[j]).mediaUrl \notin {"null", ""}
             /\ items[j] \in Range(next)
             /\ PositionIn(next, items[j]) =
                  Cardinality({m \in 1..PositionIn(toProcess, items[j]) :
                                 toProcess[m] \in Range(next)})
        /\ (items # <<>> /\ JobsIn("FAILED") = Jobs) =>
             (disk = loaded /\ next = toProcess)

\* C29 witness: a run in which one job was attached and saved and a later
\* job failed has ended.
C29_Witness ==
  /\ RunEnded
  /\ writes = 1
  /\ \E j, m \in Jobs : j < m /\ jobState[j] = "ATTACHED" /\ jobState[m] = "FAILED"

\* C27: in the API-key variant, every analysis request after the first of a
\* run is preceded by a 1-second delay since the request before it: when the
\* next request is about to be sent, the last thing that happened is not
\* another request. Also across a category boundary and across skipped
\* entries.
C27_DelayBetweenRequests ==
  pc = "apiRequest" => lastEvent # "request"

====
